---- MODULE Spec2Model ----
(***************************************************************************)
(* Model of lexical-util/etc/div128.py: the generator of the constants for *)
(* 128-bit division by radix powers, and its Python reference division.    *)
(*                                                                         *)
(* Python integers are unbounded.  They are modelled as little-endian      *)
(* sequences of limbs in base 2^15 without a leading (most significant)     *)
(* zero limb; zero is the empty sequence.  Python floats (IEEE double) are  *)
(* modelled by their exact value m * 2^e with a 53-bit mantissa.           *)
(***************************************************************************)
EXTENDS Integers, Sequences, FiniteSets, TLC

----------------------------------------------------------------------------
(* Unbounded integers                                                      *)

LimbBits == 15
Base == 2^LimbBits

Zero == <<>>
One == <<1>>

\* The element of a singleton set.  A value the source computes once and
\* uses several times, x = e, is written Only({body : x \in {e}}): body is
\* evaluated with x standing for the value of e.
Only(S) == CHOOSE x \in S : TRUE

\* s without its most significant zero limbs: the kept limbs are those with
\* a nonzero limb at or above them.
Norm(s) ==
    Only({SubSeq(x, 1, Cardinality({i \in 1..Len(x) :
                                      \E j \in i..Len(x) : x[j] # 0}))
          : x \in {s}})

RECURSIVE FromInt(_)
FromInt(n) ==
    IF n = 0 THEN <<>> ELSE <<n % Base>> \o FromInt(n \div Base)

RECURSIVE ToInt(_)
ToInt(a) ==
    IF a = <<>> THEN 0 ELSE a[1] + Base * ToInt(Tail(a))

Limb(a, i) == IF i <= Len(a) THEN a[i] ELSE 0

MaxOf(i, j) == IF i >= j THEN i ELSE j

RECURSIVE AddFrom(_, _, _, _)
AddFrom(a, b, i, carry) ==
    IF i > MaxOf(Len(a), Len(b))
    THEN (IF carry = 0 THEN <<>> ELSE <<carry>>)
    ELSE Only({<<t % Base>> \o AddFrom(a, b, i + 1, t \div Base)
               : t \in {Limb(a, i) + Limb(b, i) + carry}})

Add(a, b) == Only({AddFrom(x, y, 1, 0) : x \in {a}, y \in {b}})

RECURSIVE SubFrom(_, _, _, _)
SubFrom(a, b, i, borrow) ==
    IF i > Len(a) THEN <<>>
    ELSE Only({IF t < 0
               THEN <<t + Base>> \o SubFrom(a, b, i + 1, 1)
               ELSE <<t>> \o SubFrom(a, b, i + 1, 0)
               : t \in {a[i] - Limb(b, i) - borrow}})

\* a - b for a >= b
Sub(a, b) == Norm(Only({SubFrom(x, y, 1, 0) : x \in {a}, y \in {b}}))

RECURSIVE LessFrom(_, _, _)
LessFrom(a, b, i) ==
    IF i = 0 THEN FALSE
    ELSE IF a[i] # b[i] THEN a[i] < b[i]
    ELSE LessFrom(a, b, i - 1)

Less(a, b) ==
    Only({IF Len(x) # Len(y) THEN Len(x) < Len(y)
          ELSE LessFrom(x, y, Len(x))
          : x \in {a}, y \in {b}})

Leq(a, b) == ~Less(b, a)

RECURSIVE MulSmallFrom(_, _, _, _)
MulSmallFrom(a, k, i, carry) ==
    IF i > Len(a) THEN FromInt(carry)
    ELSE Only({<<t % Base>> \o MulSmallFrom(a, k, i + 1, t \div Base)
               : t \in {a[i] * k + carry}})

\* a * k for a native k <= 2^15
MulSmall(a, k) ==
    Only({IF m = 0 THEN <<>> ELSE MulSmallFrom(x, m, 1, 0)
          : x \in {a}, m \in {k}})

ShiftLimbs(a, k) ==
    Only({IF x = <<>> THEN <<>> ELSE [i \in 1..k |-> 0] \o x : x \in {a}})

\* a * b by Horner's rule on the limbs j..1 of b, acc being the product of
\* a and the limbs above j.
RECURSIVE MulFrom(_, _, _, _)
MulFrom(a, b, j, acc) ==
    IF j = 0 THEN acc
    ELSE Only({MulFrom(a, b, j - 1, next)
               : next \in {Add(MulSmall(a, b[j]), ShiftLimbs(acc, 1))}})

Mul(a, b) ==
    Only({IF x = <<>> THEN <<>> ELSE MulFrom(x, y, Len(y), <<>>)
          : x \in {a}, y \in {b}})

RECURSIVE DivSmallFrom(_, _, _, _)
DivSmallFrom(a, k, i, rem) ==
    IF i = 0 THEN <<>>
    ELSE Only({DivSmallFrom(a, k, i - 1, t % k) \o <<t \div k>>
               : t \in {rem * Base + a[i]}})

\* a // k for a native k in 1..2^15
DivSmall(a, k) ==
    Norm(Only({DivSmallFrom(x, m, Len(x), 0) : x \in {a}, m \in {k}}))

RECURSIVE ModSmallFrom(_, _, _, _)
ModSmallFrom(a, k, i, rem) ==
    IF i = 0 THEN rem
    ELSE Only({ModSmallFrom(a, k, i - 1, r)
               : r \in {(rem * Base + a[i]) % k}})

\* a % k for a native k in 1..2^15
ModSmall(a, k) ==
    Only({ModSmallFrom(x, m, Len(x), 0) : x \in {a}, m \in {k}})

\* a << k
Shl(a, k) ==
    Only({ShiftLimbs(MulSmall(a, 2^(n % LimbBits)), n \div LimbBits)
          : n \in {k}})

\* a >> k
Shr(a, k) ==
    Only({IF n \div LimbBits >= Len(x) THEN <<>>
          ELSE DivSmall(SubSeq(x, n \div LimbBits + 1, Len(x)),
                        2^(n % LimbBits))
          : x \in {a}, n \in {k}})

\* a & ((1 << k) - 1)
LowBits(a, k) ==
    Only({IF n \div LimbBits >= Len(x) THEN x
          ELSE Norm(SubSeq(x, 1, n \div LimbBits)
                    \o <<x[n \div LimbBits + 1] % 2^(n % LimbBits)>>)
          : x \in {a}, n \in {k}})

\* 2**k
Pow2(k) == Shl(One, k)

RECURSIVE BitLengthSmall(_)
BitLengthSmall(n) == IF n = 0 THEN 0 ELSE 1 + BitLengthSmall(n \div 2)

\* int.bit_length()
BitLength(a) ==
    Only({IF x = <<>> THEN 0
          ELSE LimbBits * (Len(x) - 1) + BitLengthSmall(x[Len(x)])
          : x \in {a}})

\* The largest q in lo..hi with q * b <= r, given lo * b <= r.
RECURSIVE QuotDigit(_, _, _, _)
QuotDigit(r, b, lo, hi) ==
    IF lo = hi THEN lo
    ELSE Only({IF Leq(MulSmall(b, mid), r)
               THEN QuotDigit(r, b, mid, hi)
               ELSE QuotDigit(r, b, lo, mid - 1)
               : mid \in {(lo + hi + 1) \div 2}})

\* One step of the long division by b: limb is the next limb of the
\* dividend and st = <<q, r>> holds the quotient limbs found so far and the
\* running remainder r < b.
DivModStep(limb, b, st) ==
    Only({IF Less(r1, b) THEN <<<<0>> \o st[1], r1>>
          ELSE Only({<<<<q>> \o st[1], Sub(r1, MulSmall(b, q))>>
                     : q \in {QuotDigit(r1, b, 1, Base - 1)}})
          : r1 \in {Norm(<<limb>> \o st[2])}})

\* Long division of a by b, from the most significant limb of a down: the
\* limbs i..1 of a are still to divide.
RECURSIVE DivModFrom(_, _, _, _)
DivModFrom(a, b, i, st) ==
    IF i = 0 THEN st
    ELSE Only({DivModFrom(a, b, i - 1, next)
               : next \in {DivModStep(a[i], b, st)}})

\* divmod(a, b) for b > 0
DivMod(a, b) ==
    Only({<<Norm(qr[1]), qr[2]>>
          : qr \in {Only({DivModFrom(x, y, Len(x), <<(<<>>), (<<>>)>>)
                          : x \in {a}, y \in {b}})}})

\* a // b
Div(a, b) == DivMod(a, b)[1]

RECURSIVE Pow(_, _)
\* a ** e
Pow(a, e) ==
    IF e = 0 THEN One
    ELSE Only({IF e % 2 = 1 THEN Mul(Mul(half, half), a)
               ELSE Mul(half, half)
               : half \in {Pow(a, e \div 2)}})

----------------------------------------------------------------------------
(* Floats                                                                  *)

\* The width of the mantissa of an IEEE double.
MantissaBits == 53

\* Round the integer q to MantissaBits significant bits, to nearest and
\* ties to even; sticky tells that the exact value lies strictly above q.
\* The result is <<m, drop>>, standing for m * 2^drop.
round_half_even(q, sticky) ==
    Only({IF BitLength(x) <= MantissaBits THEN <<x, 0>>
          ELSE Only({LET up == \/ Less(Pow2(drop - 1), low)
                               \/ /\ low = Pow2(drop - 1)
                                  /\ (sticky \/ ModSmall(kept, 2) = 1)
                     IN  <<IF up THEN Add(kept, One) ELSE kept, drop>>
                     : drop \in {BitLength(x) - MantissaBits},
                       kept \in {Shr(x, BitLength(x) - MantissaBits)},
                       low \in {LowBits(x, BitLength(x) - MantissaBits)}})
          : x \in {q}})

\* float(a) for an integer a: the value of the nearest double (an integer).
to_float(a) ==
    Only({Shl(md[1], md[2]) : md \in {round_half_even(a, FALSE)}})

\* a / b, the true division of two positive integers: the correctly rounded
\* double, as the record of its mantissa m and exponent e (m * 2^e).
true_div(a, b) ==
    Only({Only({Only({[m |-> md[1], e |-> md[2] - sh]
                      : md \in {round_half_even(qr[1], qr[2] # <<>>)}})
                : qr \in {DivMod(IF sh >= 0 THEN Shl(x, sh) ELSE x,
                                 IF sh >= 0 THEN y ELSE Shl(y, 0 - sh))}})
          : x \in {a}, y \in {b},
            sh \in {MantissaBits + 2 + BitLength(b) - BitLength(a)}})

\* f < x for a double f and an integer x (Python compares them exactly).
float_less(f, x) ==
    Only({IF g.e >= 0 THEN Less(Shl(g.m, g.e), x)
          ELSE Less(g.m, Shl(x, 0 - g.e))
          : g \in {f}})

\* ln 2 = Ln2Num / Ln2Den to six digits.
Ln2Num == 693147
Ln2Den == 1000000

\* math.ceil(math.log2(d)) for an integer d >= 1.  With f = float(d) and
\* 2^k <= f < 2^(k+1), math.log2(f) is the double k exactly when f = 2^k or
\* when log2(f) - k = log2(1 + (f - 2^k) / 2^k) is below half an ulp of k,
\* which is 2^(bit_length(k) - 54): that is (f - 2^k) / 2^k < ln 2 *
\* 2^(bit_length(k) - 54).  The ceiling is then k, and k + 1 otherwise.
ceil_log2(d) ==
    Only({Only({Only({IF r = <<>> THEN k
                      ELSE IF Less(Mul(Shl(r, 54), FromInt(Ln2Den)),
                                   Mul(Pow2(BitLengthSmall(k) + k),
                                       FromInt(Ln2Num)))
                           THEN k
                           ELSE k + 1
                      : r \in {Sub(f, Pow2(k))}})
                : k \in {BitLength(f) - 1}})
          : f \in {to_float(d)}})

\* int(math.floor(math.log(u64_max, radix))) for a radix >= 2, the one
\* logarithm div128.py takes with math.log.  math.log converts u64_max to
\* the double f = float(u64_max) = 2^64 and returns the double quotient
\* log(f) / log(radix).  When radix^k = 2^64 the radix is 2^(64 / k) with
\* 64 / k a power of two, log(radix) is log(2) scaled by that power of two,
\* as log(f) is by 64, and the quotient is the double k exactly.  Any other
\* power of a radix below 2^31 differs from 2^64 by more than a part in
\* 2^31, and the exact logarithm from an integer by far more than the
\* rounding of the three doubles.  The floor is then the largest k with
\* radix^k <= f.  As radix >= 2^(bit_length(radix) - 1), such a k has
\* k * (bit_length(radix) - 1) < bit_length(f).
floor_log_u64_max(radix) ==
    Only({Only({CHOOSE k \in S : \A j \in S : j <= k
                : S \in {{k \in 0..(BitLength(f)
                                     \div (BitLengthSmall(radix) - 1)) :
                            Leq(Pow(FromInt(radix), k), f)}}})
          : f \in {to_float(Sub(Pow2(64), One))}})

----------------------------------------------------------------------------
(* div128.py                                                               *)

u64_max == Sub(Pow2(64), One)
u128_max == Sub(Pow2(128), One)

\* The radices of divisor_constants: range(2, 37).
MinRadix == 2
MaxRadix == 36
Radices == MinRadix..MaxRadix

\* is_valid with the divisor left unsquared.
is_valid_unsquared(x) ==
    Only({/\ Leq(v, u64_max)
          /\ float_less(true_div(u128_max, v), v)
          : v \in {x}})

is_valid(x) ==
    Only({/\ Leq(v, u64_max)
          /\ float_less(true_div(u128_max, Mul(v, v)), v)
          : v \in {x}})

\* find_power_loop returning the exponent that failed the test.
RECURSIVE find_power_loop_late(_, _)
find_power_loop_late(radix, start_power) ==
    IF is_valid(Pow(FromInt(radix), start_power))
    THEN Only({find_power_loop_late(radix, next) : next \in {start_power + 1}})
    ELSE start_power

\* The while loop of find_power and its return.
RECURSIVE find_power_loop(_, _)
find_power_loop(radix, start_power) ==
    IF is_valid(Pow(FromInt(radix), start_power))
    THEN Only({find_power_loop(radix, next) : next \in {start_power + 1}})
    ELSE start_power - 1

find_power_start(radix) == floor_log_u64_max(radix) - 1

find_power(radix) ==
    Only({find_power_loop(radix, start_power)
          : start_power \in {find_power_start(radix)}})

\* choose_multiplier_step without the test m_low // 2 < m_high // 2.
choose_multiplier_step_untested(st) ==
    IF st[3] > 0
    THEN <<DivSmall(st[1], 2), DivSmall(st[2], 2), st[3] - 1>>
    ELSE st

\* choose_multiplier_step stopping unless the halves differ by two or more.
choose_multiplier_step_early(st) ==
    IF Less(Add(DivSmall(st[1], 2), One), DivSmall(st[2], 2)) /\ st[3] > 0
    THEN <<DivSmall(st[1], 2), DivSmall(st[2], 2), st[3] - 1>>
    ELSE st

\* One test of the while loop of choose_multiplier, with its body when the
\* test passes, on st = <<m_low, m_high, sh_post>>; st is left alone once
\* the loop has exited.
choose_multiplier_step(st) ==
    IF Less(DivSmall(st[1], 2), DivSmall(st[2], 2)) /\ st[3] > 0
    THEN <<DivSmall(st[1], 2), DivSmall(st[2], 2), st[3] - 1>>
    ELSE st

\* The while loop of choose_multiplier run for at most n tests.  The tests
\* are split in two halves to keep the evaluation shallow; the second half
\* has nothing to do when the first left sh_post = 0.
RECURSIVE choose_multiplier_loop(_, _)
choose_multiplier_loop(st, n) ==
    IF n = 0 THEN st
    ELSE IF n = 1 THEN choose_multiplier_step(st)
    ELSE Only({Only({IF mid[3] = 0 THEN mid
                     ELSE Only({choose_multiplier_loop(mid, rest)
                                : rest \in {n - half}})
                     : mid \in {choose_multiplier_loop(st, half)}})
               : half \in {n \div 2}})

\* choose_multiplier taking the precision of a signed type whatever
\* is_signed says.
choose_multiplier_signed(divisor, bits, is_signed) ==
    Only({Only({Only({<<st[2], st[3], div_bits>>
                      : st \in {choose_multiplier_loop(st0, div_bits)}})
                : st0 \in {<<Div(Pow2(bits + div_bits), divisor),
                             Div(Add(Pow2(bits + div_bits),
                                     Pow2(bits + div_bits - precision)),
                                 divisor),
                             div_bits>>}})
          : precision \in {bits - 1},
            div_bits \in {ceil_log2(divisor)}})

\* sh_post starts at div_bits and the loop stops at sh_post = 0 at the
\* latest: div_bits tests run the loop to its exit.  st0 holds m_low, m_high
\* and sh_post as the loop is entered.
choose_multiplier(divisor, bits, is_signed) ==
    Only({Only({Only({<<st[2], st[3], div_bits>>
                      : st \in {choose_multiplier_loop(st0, div_bits)}})
                : st0 \in {<<Div(Pow2(bits + div_bits), divisor),
                             Div(Add(Pow2(bits + div_bits),
                                     Pow2(bits + div_bits - precision)),
                                 divisor),
                             div_bits>>}})
          : precision \in {IF is_signed THEN bits - 1 ELSE bits},
            div_bits \in {ceil_log2(divisor)}})

\* One test of the while loop of fast_shift, with its body when it passes.
fast_shift_step(divisor, n) ==
    IF LowBits(divisor, n + 1) = <<>> THEN n + 1 ELSE n

\* The while loop of fast_shift run for at most k tests from n, split in
\* two halves; the loop has exited when the first half made fewer than
\* k \div 2 increments.
RECURSIVE fast_shift_loop(_, _, _)
fast_shift_loop(divisor, n, k) ==
    IF k = 0 THEN n
    ELSE IF k = 1 THEN fast_shift_step(divisor, n)
    ELSE Only({Only({IF mid < n + half THEN mid
                     ELSE Only({fast_shift_loop(divisor, mid, rest)
                                : rest \in {k - half}})
                     : mid \in {fast_shift_loop(divisor, n, half)}})
               : half \in {k \div 2}})

\* for a divisor >= 1, which has fewer trailing zero bits than bits
fast_shift(divisor) ==
    Only({fast_shift_loop(d, 0, BitLength(d)) : d \in {divisor}})

\* int(math.log2(radix)) for a radix below 2^53, where float(radix) is exact
int_log2(radix) == BitLengthSmall(radix) - 1

is_pow2(radix) == radix = 2^int_log2(radix)

\* bin without the "0b" prefix.
bin_digits(a) ==
    Only({IF x = <<>> THEN <<"0">>
          ELSE [i \in 1..len |->
                  IF (x[(len - i) \div LimbBits + 1]
                      \div 2^((len - i) % LimbBits)) % 2 = 1
                  THEN "1" ELSE "0"]
          : x \in {a}, len \in {BitLength(a)}})

\* bin(a): the string "0b" followed by the binary digits of a
bin(a) ==
    Only({IF x = <<>> THEN <<"0", "b", "0">>
          ELSE <<"0", "b">> \o
               [i \in 1..len |->
                  IF (x[(len - i) \div LimbBits + 1]
                      \div 2^((len - i) % LimbBits)) % 2 = 1
                  THEN "1" ELSE "0"]
          : x \in {a}, len \in {BitLength(a)}})

\* print_pow2 with 64 / log2 rounded up.
print_pow2_ceil(radix) ==
    LET log2 == int_log2(radix)
        digits == (64 + log2 - 1) \div log2
        shr == digits * log2
        mask == Sub(Shl(One, shr), One)
    IN  [radix |-> radix, kernel |-> "pow2_u128_divrem",
         mask |-> mask, shr |-> shr, digits |-> digits]

\* The print_* functions are modelled by the record of what they print:
\* the kernel called by u128_divrem_<radix> with its arguments, and the
\* value returned by u64_step_<radix>.
print_pow2(radix) ==
    LET log2 == int_log2(radix)
        digits == 64 \div log2
        shr == digits * log2
        mask == Sub(Shl(One, shr), One)
    IN  [radix |-> radix, kernel |-> "pow2_u128_divrem",
         mask |-> mask, shr |-> shr, digits |-> digits]

print_fast(radix, divisor, fast_shr, factor, factor_shr, digits) ==
    LET fast == Shl(One, 64 + fast_shr)
    IN  [radix |-> radix, kernel |-> "fast_u128_divrem",
         divisor |-> divisor, fast |-> fast, fast_shr |-> fast_shr,
         factor |-> factor, factor_shr |-> factor_shr, digits |-> digits]

print_moderate(radix, divisor, factor, factor_shr, digits) ==
    [radix |-> radix, kernel |-> "moderate_u128_divrem",
     divisor |-> divisor, factor |-> factor, factor_shr |-> factor_shr,
     digits |-> digits]

print_slow(radix, divisor, digits) ==
    LET ctlz == 66 - Len(bin(divisor))
    IN  [radix |-> radix, kernel |-> "slow_u128_divrem",
         divisor |-> divisor, ctlz |-> ctlz, digits |-> digits]

\* classify falling back to the slow kernel from 2^129 only.
classify_wide(radix, digits) ==
    Only({Only({IF Leq(Pow2(129), cm[1])
                THEN print_slow(radix, divisor, digits)
                ELSE IF fast_shr # 0
                THEN print_fast(radix, divisor, fast_shr, cm[1], cm[2], digits)
                ELSE print_moderate(radix, divisor, cm[1], cm[2], digits)
                : fast_shr \in {fast_shift(divisor)},
                  cm \in {choose_multiplier(divisor, 128, FALSE)}})
          : divisor \in {Pow(FromInt(radix), digits)}})

\* The body of the loop of divisor_constants for a radix that is not a
\* power of two, once find_power has returned digits; cm holds factor and
\* factor_shr.
classify(radix, digits) ==
    Only({Only({IF Leq(Pow2(128), cm[1])
                THEN print_slow(radix, divisor, digits)
                ELSE IF fast_shr # 0
                THEN print_fast(radix, divisor, fast_shr, cm[1], cm[2], digits)
                ELSE print_moderate(radix, divisor, cm[1], cm[2], digits)
                : fast_shr \in {fast_shift(divisor)},
                  cm \in {choose_multiplier(divisor, 128, FALSE)}})
          : divisor \in {Pow(FromInt(radix), digits)}})

\* u128_mulhi without the low half of m in high2.
u128_mulhi_no_m_lo(x, y) ==
    Only({Only({Only({Add(Add(Mul(x_hi, y_hi), Shr(m, 64)),
                          Shr(Mul(x_hi, y_lo), 64))
                      : m \in {Add(Mul(x_lo, y_hi), carry)}})
                : carry \in {Shr(Mul(x_lo, y_lo), 64)}})
          : x_lo \in {LowBits(x, 64)}, x_hi \in {Shr(x, 64)},
            y_lo \in {LowBits(y, 64)}, y_hi \in {Shr(y, 64)}})

\* high1 is m >> 64 and m_lo is m & u64_max.
u128_mulhi(x, y) ==
    Only({Only({Only({Add(Add(Mul(x_hi, y_hi), Shr(m, 64)),
                          Shr(Add(Mul(x_hi, y_lo), LowBits(m, 64)), 64))
                      : m \in {Add(Mul(x_lo, y_hi), carry)}})
                : carry \in {Shr(Mul(x_lo, y_lo), 64)}})
          : x_lo \in {LowBits(x, 64)}, x_hi \in {Shr(x, 64)},
            y_lo \in {LowBits(y, 64)}, y_hi \in {Shr(y, 64)}})

\* The remainder n - quotient * divisor is a Python integer and may be
\* negative: it is the record of its sign and magnitude.
signed_sub(a, b) ==
    Only({IF Leq(y, x) THEN [neg |-> FALSE, abs |-> Sub(x, y)]
          ELSE [neg |-> TRUE, abs |-> Sub(y, x)]
          : x \in {a}, y \in {b}})

\* cm holds factor and factor_shr; the result is <<quotient, remainder>>.
udiv128(n, divisor) ==
    Only({Only({<<quotient, signed_sub(n, Mul(quotient, divisor))>>
                : quotient \in {IF Less(n, Shl(One, 64 + shr))
                                THEN Div(Shr(n, shr), Shr(divisor, shr))
                                ELSE Shr(u128_mulhi(n, cm[1]), cm[2])}})
          : cm \in {choose_multiplier(divisor, 128, FALSE)},
            shr \in {fast_shift(divisor)}})


----------------------------------------------------------------------------
(* State                                                                   *)

VARIABLES
    pc,           \* where the program is: "for", "find_power" and "done" in
                  \* divisor_constants; "call" and "return" around a call
    radix,        \* the loop variable of divisor_constants
    start_power,  \* the local of find_power
    out,          \* what divisor_constants printed, one record per radix
    fn,           \* the function entered: "divisor_constants" when the
                  \* module runs as a script, else the function called
    args,         \* the arguments of the call
    ret           \* the value returned

vars == <<pc, radix, start_power, out, fn, args, ret>>

----------------------------------------------------------------------------
(* The script: divisor_constants()                                         *)

Init ==
    /\ pc = "for"
    /\ radix = MinRadix
    /\ start_power = 0
    /\ out = <<>>
    /\ fn = "divisor_constants"
    /\ args = <<>>
    /\ ret = <<>>

\* if is_pow2(radix): print_pow2(radix); continue
ForPow2 ==
    /\ pc = "for"
    /\ radix <= MaxRadix
    /\ is_pow2(radix)
    /\ out' = Append(out, print_pow2(radix))
    /\ radix' = radix + 1
    /\ UNCHANGED <<pc, start_power, fn, args, ret>>

\* digits = find_power(radix): the call, up to the while loop
ForFindPower ==
    /\ pc = "for"
    /\ radix <= MaxRadix
    /\ ~is_pow2(radix)
    /\ start_power' = find_power_start(radix)
    /\ pc' = "find_power"
    /\ UNCHANGED <<radix, out, fn, args, ret>>

\* while is_valid(radix**start_power): start_power += 1
FindPowerWhile ==
    /\ pc = "find_power"
    /\ is_valid(Pow(FromInt(radix), start_power))
    /\ start_power' = start_power + 1
    /\ UNCHANGED <<pc, radix, out, fn, args, ret>>

\* return start_power - 1, and the rest of the body of the for loop
FindPowerReturn ==
    /\ pc = "find_power"
    /\ ~is_valid(Pow(FromInt(radix), start_power))
    /\ out' = Append(out, classify(radix, start_power - 1))
    /\ radix' = radix + 1
    /\ pc' = "for"
    /\ UNCHANGED <<start_power, fn, args, ret>>

ForExit ==
    /\ pc = "for"
    /\ radix > MaxRadix
    /\ pc' = "done"
    /\ UNCHANGED <<radix, start_power, out, fn, args, ret>>

Next == ForPow2 \/ ForFindPower \/ FindPowerWhile \/ FindPowerReturn \/ ForExit

Spec == Init /\ [][Next]_vars

----------------------------------------------------------------------------
(* Calls of the functions of the module                                    *)

Entered(f, a) ==
    /\ pc = "call"
    /\ radix = MinRadix
    /\ start_power = 0
    /\ out = <<>>
    /\ fn = f
    /\ args = a
    /\ ret = <<>>

Return(f, value) ==
    /\ pc = "call"
    /\ fn = f
    /\ ret' = value
    /\ pc' = "return"
    /\ UNCHANGED <<radix, start_power, out, fn, args>>

Returned(f) == pc = "return" /\ fn = f

\* The largest exponent of the powers of a radix handed to is_valid.
MaxExponent == 65

InitPower ==
    \/ \E r \in Radices : Entered("find_power", <<r>>)
    \/ \E r \in Radices : \E e \in 1..MaxExponent : Entered("is_valid", <<r, e>>)

CallFindPower == Return("find_power", find_power(args[1]))

\* is_valid(radix**e) for args = <<radix, e>>
CallIsValid == Return("is_valid", is_valid(Pow(FromInt(args[1]), args[2])))

NextPower == CallFindPower \/ CallIsValid

SpecPower == InitPower /\ [][NextPower]_vars

\* The 64-bit halves of the operands of u128_mulhi: within MaxOffset of 0
\* and of 2^64 - 1, and the powers 2^32 and 2^63.
MaxOffset == 1

Halves ==
    {FromInt(k) : k \in 0..MaxOffset}
    \cup {Sub(u64_max, FromInt(k)) : k \in 0..MaxOffset}
    \cup {Pow2(32), Pow2(63)}

Words128 == {Add(Shl(hi, 64), lo) : hi \in Halves, lo \in Halves}

InitMulhi == \E x \in Words128 : \E y \in Words128 : Entered("u128_mulhi", <<x, y>>)

CallMulhi == Return("u128_mulhi", u128_mulhi(args[1], args[2]))

NextMulhi == CallMulhi

SpecMulhi == InitMulhi /\ [][NextMulhi]_vars

\* The divisors divisor_constants derives: radix^find_power(radix) for the
\* radices that are not powers of two.
RadixDivisors ==
    {Pow(FromInt(r), find_power(r)) : r \in {q \in Radices : ~is_pow2(q)}}

\* The small divisors 1..MaxSmallDivisor.
MaxSmallDivisor == 3

\* Other divisors up to 2^64 - 1: the largest, a multiple of a large power
\* of two, and two just above a power of two, which float() rounds down to
\* that power.
OtherDivisors64 ==
    {FromInt(k) : k \in 1..MaxSmallDivisor}
    \cup {u64_max, Shl(FromInt(3), 62), Add(Pow2(63), One), Add(Pow2(49), One)}

\* The dividends below 2^bits tried with a divisor d: both ends of the
\* range, the neighbours of d, of 2^64 and of the threshold 2^(64 + shr) of
\* udiv128, 3^40, and the largest multiples of d with their predecessors.
MaxMultiple == 2

Dividends(d, bits) ==
    Only({{n \in {Zero, One, top, Sub(d, One), d, Add(d, One),
                  u64_max, Pow2(64), Pow(FromInt(3), 40),
                  Sub(threshold, One), threshold}
                 \cup {Mul(Sub(q, FromInt(k)), d) : k \in 0..MaxMultiple}
                 \cup {Sub(Mul(Sub(q, FromInt(k)), d), One)
                       : k \in 0..MaxMultiple}
           : Leq(n, top)}
          : top \in {Sub(Pow2(bits), One)},
            q \in {Div(Sub(Pow2(bits), One), d)},
            threshold \in {Pow2(64 + fast_shift(d))}})

InitDiv ==
    \E d \in RadixDivisors \cup OtherDivisors64 :
        \E n \in Dividends(d, 128) : Entered("udiv128", <<n, d>>)

CallUdiv128 == Return("udiv128", udiv128(args[1], args[2]))

NextDiv == CallUdiv128

SpecDiv == InitDiv /\ [][NextDiv]_vars

\* choose_multiplier is called with every divisor of every width up to
\* MaxBits, and at the width 128 of the program.
MaxBits == 6

\* A divisor above 2^127 that float() rounds down to 2^127, for which
\* math.log2 gives div_bits = 127 and not 128:
\* 2^127 + 13043817825332782213, the offset being isqrt(2^127) + 1.
RoundedDownDivisor == Add(Pow2(127), <<25733, 29628, 19663, 10279, 11>>)

\* Divisors of 65 to 128 bits.
OtherDivisors128 ==
    {u128_max, Pow2(64), Add(Pow2(64), One), Add(Pow2(127), One),
     Shl(FromInt(3), 126), Add(Pow2(100), FromInt(2)), Pow(FromInt(3), 80),
     RoundedDownDivisor}

InitMultiplier ==
    \/ \E bits \in 1..MaxBits : \E d \in 1..(2^bits - 1) :
          Entered("choose_multiplier", <<FromInt(d), bits, FALSE>>)
    \/ \E d \in RadixDivisors \cup OtherDivisors64 \cup OtherDivisors128
                \cup {Pow2(k) : k \in {1, 64}} :
          Entered("choose_multiplier", <<d, 128, FALSE>>)

CallChooseMultiplier ==
    Return("choose_multiplier", choose_multiplier(args[1], args[2], args[3]))

NextMultiplier == CallChooseMultiplier

SpecMultiplier == InitMultiplier /\ [][NextMultiplier]_vars

----------------------------------------------------------------------------
(* Properties                                                              *)

Ten19 == Pow(FromInt(10), 19)

\* C1: udiv128(n, d) returns the quotient floor(n / d) and the remainder
\* n - quotient * d, with quotient * d + remainder = n and
\* 0 <= remainder < d, for every dividend below 2^128 and every divisor up
\* to 2^64 - 1.
C1_udiv128_exact ==
    Returned("udiv128") =>
        LET n == args[1]
            d == args[2]
            quotient == ret[1]
            remainder == ret[2]
        IN  /\ quotient = Div(n, d)
            /\ ~remainder.neg
            /\ Add(Mul(quotient, d), remainder.abs) = n
            /\ Less(remainder.abs, d)

\* udiv128(2^128 - 1, 10^19) has returned, by the multiplication.
C1_witness ==
    /\ Returned("udiv128")
    /\ args = <<u128_max, Ten19>>
    /\ ~Less(args[1], Shl(One, 64 + fast_shift(args[2])))
    /\ ret[1] = Div(u128_max, Ten19)
    /\ ret[1] # <<>>

\* C2: u128_mulhi(x, y) is floor(x * y / 2^128), the high 128 bits of the
\* 256-bit product, for x and y below 2^128.
C2_mulhi_high_bits ==
    Returned("u128_mulhi") => ret = Shr(Mul(args[1], args[2]), 128)

\* u128_mulhi(2^128 - 1, 2^128 - 1) has returned 2^128 - 2.
C2_witness ==
    /\ Returned("u128_mulhi")
    /\ args = <<u128_max, u128_max>>
    /\ ret = Sub(u128_max, One)

\* C3: find_power(radix) is the largest exponent d with
\* is_valid(radix^d): is_valid holds at radix^d, fails at radix^(d+1), and
\* holds at no larger exponent.
C3_find_power_largest ==
    Returned("find_power") =>
        LET r == FromInt(args[1])
        IN  /\ is_valid(Pow(r, ret))
            /\ ~is_valid(Pow(r, ret + 1))
            /\ \A e \in 0..MaxExponent : is_valid(Pow(r, e)) => e <= ret

\* find_power(10) has returned 19.
C3_witness ==
    /\ Returned("find_power")
    /\ args = <<10>>
    /\ ret = 19
    /\ ret + 1 <= MaxExponent

\* The records printed so far.
Printed == {out[i] : i \in 1..Len(out)}

\* radix^digit_count of a printed record
DivisorValue(rec) == Pow(FromInt(rec.radix), rec.digits)

\* C4 as stated: the divisor_value radix^digit_count of every record,
\* those of the power-of-two radices included, is at most 2^64 - 1.
C4_original ==
    \A rec \in Printed : Leq(DivisorValue(rec), u64_max)

\* C4, amended: the record of a radix that is not a power of two has
\* divisor_value = radix^digit_count <= 2^64 - 1; for a power-of-two radix
\* radix^digit_count is 2^shift <= 2^64, and is 2^64 for the radices 2, 4
\* and 16.
C4_divisor_value_bound ==
    \A rec \in Printed :
        IF rec.kernel = "pow2_u128_divrem"
        THEN /\ DivisorValue(rec) = Pow2(rec.shr)
             /\ Leq(DivisorValue(rec), Pow2(64))
             /\ rec.radix \in {2, 4, 16} => DivisorValue(rec) = Pow2(64)
        ELSE /\ rec.divisor = DivisorValue(rec)
             /\ Leq(DivisorValue(rec), u64_max)

\* divisor_constants has printed the records of all 35 radices, that of
\* radix 2 with 2^64 and that of radix 10 with 10^19.
C4_witness ==
    /\ pc = "done"
    /\ Len(out) = MaxRadix - MinRadix + 1
    /\ out[1].radix = 2 /\ out[1].shr = 64 /\ out[1].digits = 64
    /\ out[9].radix = 10 /\ out[9].divisor = Ten19

SlowRecord(rec) == rec.kernel = "slow_u128_divrem"

\* C6 as stated: radix 3 gets the fast or the moderate kernel, never the
\* slow one.
C6_original ==
    \A rec \in Printed :
        rec.radix = 3 =>
            rec.kernel \in {"fast_u128_divrem", "moderate_u128_divrem"}

\* C6, amended: radix 3 gets the slow kernel, with divisor 3^40: the
\* multiplier choose_multiplier(3^40, 128) returns is >= 2^128.
C6_radix3_slow ==
    \A rec \in Printed :
        rec.radix = 3 =>
            /\ SlowRecord(rec)
            /\ rec.divisor = Pow(FromInt(3), 40)
            /\ Leq(Pow2(128), choose_multiplier(rec.divisor, 128, FALSE)[1])

\* The record of radix 3 is printed.
C6_witness ==
    /\ Len(out) >= 2
    /\ out[2].radix = 3
    /\ out[2].digits = 40

\* C7 as stated: the leading_zero_count handed to the slow kernel is
\* 66 - bitlength(divisor_value).
C7_original ==
    \A rec \in Printed :
        SlowRecord(rec) => rec.ctlz = 66 - BitLength(rec.divisor)

\* C7, amended: the leading_zero_count handed to the slow kernel is
\* 64 - bitlength(divisor_value); the 66 of the code is taken off the
\* length of bin(divisor_value), which counts the two characters of "0b".
C7_slow_ctlz ==
    \A rec \in Printed :
        SlowRecord(rec) => rec.ctlz = 64 - BitLength(rec.divisor)

\* A slow record with leading zeros is printed: that of radix 12, with 3.
C7_witness ==
    \E rec \in Printed :
        SlowRecord(rec) /\ rec.radix = 12 /\ rec.ctlz = 3

\* C5: for 1 <= d < 2^bits the multiplier of
\* choose_multiplier(d, bits, is_signed=False) is below 2^(bits + 1); at
\* bits = 128 it fits in 129 bits.
C5_multiplier_width ==
    Returned("choose_multiplier") =>
        /\ Less(args[1], Pow2(args[2]))
        /\ Less(ret[1], Pow2(args[2] + 1))

\* choose_multiplier(3^40, 128) has returned a multiplier of 129 bits.
C5_witness ==
    /\ Returned("choose_multiplier")
    /\ args = <<Pow(FromInt(3), 40), 128, FALSE>>
    /\ BitLength(ret[1]) = 129

\* The dividends the multiplier of d is tried on: all of them up to
\* MaxBits bits, Dividends(d, bits) beyond.
TriedDividends(d, bits) ==
    IF bits <= MaxBits THEN {FromInt(n) : n \in 0..(2^bits - 1)}
    ELSE Dividends(d, bits)

\* C8 as stated: with (m, s, _) = choose_multiplier(d, bits),
\* floor(n * m / 2^(bits + s)) = floor(n / d) for every divisor d below
\* 2^bits and every n below 2^bits, the small ones included.
C8_multiply_shift_exact ==
    Returned("choose_multiplier") =>
        \A n \in TriedDividends(args[1], args[2]) :
            Shr(Mul(n, ret[1]), args[2] + ret[2]) = Div(n, args[1])

\* Some m < 2^bits and shift in 0..bits meet the precision bound
\* 2^(bits + shift) <= m * d <= 2^(bits + shift) + 2^shift.  No larger
\* shift can: d < 2^bits makes m >= 2^(bits + shift) / d > 2^shift.  Up to
\* MaxBits bits every m is tried; beyond, the least m with
\* 2^(bits + shift) <= m * d is.
SomeMultiplierFits(d, bits) ==
    IF bits <= MaxBits
    THEN \E shift \in 0..bits : \E m \in 0..(2^bits - 1) :
            /\ 2^(bits + shift) <= m * ToInt(d)
            /\ m * ToInt(d) <= 2^(bits + shift) + 2^shift
    ELSE \E shift \in 0..bits :
            LET qr == DivMod(Pow2(bits + shift), d)
                m == IF qr[2] = <<>> THEN qr[1] ELSE Add(qr[1], One)
            IN  /\ Less(m, Pow2(bits))
                /\ Leq(Mul(m, d), Add(Pow2(bits + shift), Pow2(shift)))

IsPowerOfTwo(d) == d = Pow2(BitLength(d) - 1)

\* C9 as stated: when choose_multiplier(d, bits) returns a multiplier
\* >= 2^bits, no multiplier below 2^bits meets the precision bound for d.
C9_original ==
    Returned("choose_multiplier") /\ Leq(Pow2(args[2]), ret[1]) =>
        ~SomeMultiplierFits(args[1], args[2])

\* C9, amended: when choose_multiplier(d, bits) returns a multiplier
\* >= 2^bits for a divisor d that is 1 or not a power of two, as are the
\* divisors divisor_constants passes, no multiplier below 2^bits meets the
\* precision bound for d.
C9_slow_is_needed ==
    /\ Returned("choose_multiplier")
    /\ Leq(Pow2(args[2]), ret[1])
    /\ (IsPowerOfTwo(args[1]) => args[1] = One)
    => ~SomeMultiplierFits(args[1], args[2])

\* choose_multiplier(3^40, 128) has returned a multiplier >= 2^128.
C9_witness ==
    /\ Returned("choose_multiplier")
    /\ args[1] = Pow(FromInt(3), 40)
    /\ args[2] = 128
    /\ Leq(Pow2(128), ret[1])
    /\ ~IsPowerOfTwo(args[1])

\* C10 as stated: is_valid(radix^1) holds for every radix in 2..36.
C10_original ==
    Returned("is_valid") /\ args[2] = 1 => ret

\* C10, amended: for every radix in 2..36 is_valid(radix^1) fails, as
\* radix^3 < 2^128, and is_valid holds at the exponent
\* floor(log(2^64 - 1, radix)) - 1 find_power starts from: every radix has
\* a valid power.
C10_some_power_valid ==
    Returned("is_valid") =>
        /\ args[2] = 1 => ~ret
        /\ ~ret => args[2] # find_power_start(args[1])

\* is_valid(36^11) has returned True, 11 being the exponent find_power(36)
\* starts from.
C10_witness ==
    /\ Returned("is_valid")
    /\ args = <<36, 11>>
    /\ args[2] = find_power_start(args[1])
    /\ ret

====
